---- MODULE Spec2Model ----
(***************************************************************************)
(* A model of core::JobSystem (core/src/JobSystem.cpp, JobSystem.h): a     *)
(* fixed pool of worker threads that pop tasks from one FIFO queue guarded *)
(* by one mutex, two condition variables (work, idle), atomic counters and *)
(* a one-way accepting flag.  Built with JOBSYS_TELEMETRY == 0.            *)
(*                                                                         *)
(* Granularity.  A step is one access to shared state that other threads   *)
(* can tell apart: an atomic operation done outside the mutex              *)
(* (m_accepting, the stop tokens, m_completed, a notify), or one critical  *)
(* section of m_mtx.  A critical section is a single step guarded by       *)
(* m_mtx = NoThread, except the worker's: the worker keeps m_mtx between   *)
(* evaluating its wait predicate and either blocking or dequeuing, because *)
(* request_stop() and notify_all() in Stop are done without the mutex and  *)
(* can fall into that window.                                              *)
(***************************************************************************)
EXTENDS Naturals, Sequences, FiniteSets

\* Bounds of the model.
MaxWorkers == 2
NumClients == 2
MaxTasks == 2
MaxHardware == 1

Workers == 1..MaxWorkers
Clients == 1..NumClients
Tasks == 1..MaxTasks

\* m_mtx when no thread owns it.
NoThread == 0

VARIABLES
    m_cfg,        \* Config::workerThreads as requested
    m_workers,    \* the worker handles (indices of std::jthread) still in the vector
    m_queue,      \* std::deque<TaskItem>, as the sequence of task numbers
    m_accepting,  \* std::atomic<bool>
    m_inFlight,   \* std::atomic<uint64_t>
    m_submitted,  \* std::atomic<uint64_t>
    m_completed,  \* std::atomic<uint64_t>
    m_mtx,        \* owner of the mutex across steps: a worker, or NoThread
    m_cvWork,     \* workers blocked in m_cvWork.wait
    m_cvIdle,     \* client threads blocked in m_cvIdle.wait
    stopReq,      \* stop_requested() of each worker's stop token
    wpc,          \* each worker's position in WorkerLoop
    cur,          \* the task a worker holds between dequeue and completion (0: none)
    cpc,          \* each client thread's position in the call it is making
    stopMode,     \* the mode argument of the Stop call that won the compare-exchange
    stopIt,       \* that call's position in `for (auto& t : m_workers)`
    runs,         \* history: how many times each task's callable has run
    discarded,    \* history: the tasks m_queue.clear() removed
    accepted,     \* history: how many Submit calls have returned true
    lateCalls     \* history: the kinds of call made after the shutdown had returned

vars == <<m_cfg, m_workers, m_queue, m_accepting, m_inFlight, m_submitted,
          m_completed, m_mtx, m_cvWork, m_cvIdle, stopReq, wpc, cur, cpc,
          stopMode, stopIt, runs, discarded, accepted, lateCalls>>

shared == <<m_queue, m_accepting, m_inFlight, m_submitted, m_completed>>
history == <<runs, discarded, accepted, lateCalls>>
stopLocals == <<stopMode, stopIt>>

\* ResolveThreadCount: hc is std::thread::hardware_concurrency().
ResolveThreadCount(requested, hc) ==
    IF requested # 0 THEN requested ELSE IF hc = 0 THEN 1 ELSE hc

Range(s) == {s[i] : i \in 1..Len(s)}

\* The callables submitted: the odd-numbered submissions throw when they are
\* run, the even-numbered ones return, so that a throwing task is followed by
\* a returning one and a returning one by a throwing one.
Throws(t) == t % 2 = 1

\* JobSystem::JobSystem: n workers spawned, each at the top of WorkerLoop.
Init ==
    \E requested \in 0..MaxWorkers, hc \in 0..MaxHardware :
        /\ m_cfg = requested
        /\ m_workers = 1..ResolveThreadCount(requested, hc)
        /\ wpc = [w \in Workers |->
                    IF w <= ResolveThreadCount(requested, hc) THEN "start" ELSE "none"]
        /\ m_queue = <<>>
        /\ m_accepting = TRUE
        /\ m_inFlight = 0
        /\ m_submitted = 0
        /\ m_completed = 0
        /\ m_mtx = NoThread
        /\ m_cvWork = {}
        /\ m_cvIdle = {}
        /\ stopReq = [w \in Workers |-> FALSE]
        /\ cur = [w \in Workers |-> 0]
        /\ cpc = [c \in Clients |-> "idle"]
        /\ stopMode = "none"
        /\ stopIt = 0
        /\ runs = [t \in Tasks |-> 0]
        /\ discarded = {}
        /\ accepted = 0
        /\ lateCalls = {}

----------------------------------------------------------------------------
\* WorkerLoop

\* The worker positions after the workers in set ws are woken from
\* m_cvWork.wait: each is back at taking the mutex.
Woken(ws) == [w \in Workers |-> IF w \in ws THEN "start" ELSE wpc[w]]

\* The caller positions after the threads in set cs are woken from
\* m_cvIdle.wait: a Stop caller is back at taking the mutex for its wait
\* predicate; a WaitIdle caller stays in its call, out of m_cvIdle.
WokenIdle(cs) ==
    [c \in Clients |-> IF c \in cs /\ cpc[c] = "st_blocked" THEN "st_wait" ELSE cpc[c]]

\* The wait predicate of m_cvWork.wait.
WorkPred(w) == stopReq[w] \/ m_queue # <<>>

\* Lock m_mtx and evaluate the predicate of m_cvWork.wait: true goes on to
\* the dequeue, false leaves the worker holding the mutex, about to block.
\* A worker is at "start" at the top of its loop and after a wake-up: in
\* both places its next step is to take the mutex and evaluate the predicate.
WorkerWaitPred(w) ==
    /\ wpc[w] = "start"
    /\ m_mtx = NoThread
    /\ m_mtx' = w
    /\ wpc' = [wpc EXCEPT ![w] = IF WorkPred(w) THEN "locked" ELSE "prewait"]
    /\ UNCHANGED <<m_cfg, m_workers, shared, m_cvWork, m_cvIdle, stopReq, cur,
                   cpc, stopLocals, history>>

\* condition_variable::wait(lock): release the mutex and block, atomically.
WorkerWaitBlock(w) ==
    /\ wpc[w] = "prewait"
    /\ m_mtx' = NoThread
    /\ m_cvWork' = m_cvWork \cup {w}
    /\ wpc' = [wpc EXCEPT ![w] = "blocked"]
    /\ UNCHANGED <<m_cfg, m_workers, shared, m_cvIdle, stopReq, cur, cpc, stopLocals, history>>

\* Mutant of WorkerDequeue: the worker takes the task at the back of the
\* deque (back / pop_back in place of front / pop_front).
WorkerDequeue_FromBack(w) ==
    /\ wpc[w] = "locked"
    /\ m_mtx' = NoThread
    /\ IF stopReq[w] /\ m_queue = <<>>
       THEN /\ wpc' = [wpc EXCEPT ![w] = "exit"]
            /\ UNCHANGED <<m_queue, m_inFlight, cur>>
       ELSE IF m_queue = <<>>
       THEN /\ wpc' = [wpc EXCEPT ![w] = "start"]
            /\ UNCHANGED <<m_queue, m_inFlight, cur>>
       ELSE /\ cur' = [cur EXCEPT ![w] = m_queue[Len(m_queue)]]
            /\ m_queue' = SubSeq(m_queue, 1, Len(m_queue) - 1)
            /\ m_inFlight' = m_inFlight + 1
            /\ wpc' = [wpc EXCEPT ![w] = "run"]
    /\ UNCHANGED <<m_cfg, m_workers, m_accepting, m_submitted, m_completed,
                   m_cvWork, m_cvIdle, stopReq, cpc, stopLocals, history>>

\* Mutant of WorkerDequeue: the lock's scope runs on over the callable, so
\* the worker still owns m_mtx when it starts task.fn().
WorkerDequeue_KeepsLock(w) ==
    /\ wpc[w] = "locked"
    /\ IF stopReq[w] /\ m_queue = <<>>
       THEN /\ wpc' = [wpc EXCEPT ![w] = "exit"]
            /\ m_mtx' = NoThread
            /\ UNCHANGED <<m_queue, m_inFlight, cur>>
       ELSE IF m_queue = <<>>
       THEN /\ wpc' = [wpc EXCEPT ![w] = "start"]
            /\ m_mtx' = NoThread
            /\ UNCHANGED <<m_queue, m_inFlight, cur>>
       ELSE /\ cur' = [cur EXCEPT ![w] = Head(m_queue)]
            /\ m_queue' = Tail(m_queue)
            /\ m_inFlight' = m_inFlight + 1
            /\ wpc' = [wpc EXCEPT ![w] = "run"]
            /\ UNCHANGED m_mtx
    /\ UNCHANGED <<m_cfg, m_workers, m_accepting, m_submitted, m_completed,
                   m_cvWork, m_cvIdle, stopReq, cpc, stopLocals, history>>

\* Mutant of WorkerDequeue: a stop-requested worker breaks out of the loop
\* without looking at the queue.
WorkerDequeue_ExitOnStop(w) ==
    /\ wpc[w] = "locked"
    /\ m_mtx' = NoThread
    /\ IF stopReq[w]
       THEN /\ wpc' = [wpc EXCEPT ![w] = "exit"]
            /\ UNCHANGED <<m_queue, m_inFlight, cur>>
       ELSE IF m_queue = <<>>
       THEN /\ wpc' = [wpc EXCEPT ![w] = "start"]
            /\ UNCHANGED <<m_queue, m_inFlight, cur>>
       ELSE /\ cur' = [cur EXCEPT ![w] = Head(m_queue)]
            /\ m_queue' = Tail(m_queue)
            /\ m_inFlight' = m_inFlight + 1
            /\ wpc' = [wpc EXCEPT ![w] = "run"]
    /\ UNCHANGED <<m_cfg, m_workers, m_accepting, m_submitted, m_completed,
                   m_cvWork, m_cvIdle, stopReq, cpc, stopLocals, history>>

\* Mutant of WorkerDequeue: the head task is copied out and not popped.
WorkerDequeue_NoPop(w) ==
    /\ wpc[w] = "locked"
    /\ m_mtx' = NoThread
    /\ IF stopReq[w] /\ m_queue = <<>>
       THEN /\ wpc' = [wpc EXCEPT ![w] = "exit"]
            /\ UNCHANGED <<m_queue, m_inFlight, cur>>
       ELSE IF m_queue = <<>>
       THEN /\ wpc' = [wpc EXCEPT ![w] = "start"]
            /\ UNCHANGED <<m_queue, m_inFlight, cur>>
       ELSE /\ cur' = [cur EXCEPT ![w] = Head(m_queue)]
            /\ UNCHANGED m_queue
            /\ m_inFlight' = m_inFlight + 1
            /\ wpc' = [wpc EXCEPT ![w] = "run"]
    /\ UNCHANGED <<m_cfg, m_workers, m_accepting, m_submitted, m_completed,
                   m_cvWork, m_cvIdle, stopReq, cpc, stopLocals, history>>

\* After the wait, still under the lock: break, continue, or move the head
\* task out and count it in flight.
WorkerDequeue(w) ==
    /\ wpc[w] = "locked"
    /\ m_mtx' = NoThread
    /\ IF stopReq[w] /\ m_queue = <<>>
       THEN /\ wpc' = [wpc EXCEPT ![w] = "exit"]
            /\ UNCHANGED <<m_queue, m_inFlight, cur>>
       ELSE IF m_queue = <<>>
       THEN /\ wpc' = [wpc EXCEPT ![w] = "start"]
            /\ UNCHANGED <<m_queue, m_inFlight, cur>>
       ELSE /\ cur' = [cur EXCEPT ![w] = Head(m_queue)]
            /\ m_queue' = Tail(m_queue)
            /\ m_inFlight' = m_inFlight + 1
            /\ wpc' = [wpc EXCEPT ![w] = "run"]
    /\ UNCHANGED <<m_cfg, m_workers, m_accepting, m_submitted, m_completed,
                   m_cvWork, m_cvIdle, stopReq, cpc, stopLocals, history>>


\* Mutant of WorkerRunTask: the callable runs and m_completed is not counted.
WorkerRunTask_NoCount(w) ==
    /\ wpc[w] = "run"
    /\ runs' = [runs EXCEPT ![cur[w]] = @ + 1]
    /\ wpc' = [wpc EXCEPT ![w] = "ran"]
    /\ UNCHANGED <<m_cfg, m_workers, shared, m_mtx, m_cvWork, m_cvIdle,
                   stopReq, cur, cpc, stopLocals, discarded, accepted, lateCalls>>

\* Mutant of WorkerRunTask: no try/catch around task.fn(), so a throwing
\* callable unwinds the worker thread, which ends without counting the task.
WorkerRunTask_Unwinds(w) ==
    /\ wpc[w] = "run"
    /\ runs' = [runs EXCEPT ![cur[w]] = @ + 1]
    /\ IF Throws(cur[w])
       THEN /\ wpc' = [wpc EXCEPT ![w] = "done"]
            /\ UNCHANGED m_completed
       ELSE /\ m_completed' = m_completed + 1
            /\ wpc' = [wpc EXCEPT ![w] = "ran"]
    /\ UNCHANGED <<m_cfg, m_workers, m_queue, m_accepting, m_inFlight,
                   m_submitted, m_mtx, m_cvWork, m_cvIdle, stopReq, cur, cpc,
                   stopLocals, discarded, accepted, lateCalls>>

\* task.fn() runs outside the lock and ends: by throwing, and `catch (...)`
\* drops the exception, or by returning; either way the worker goes on to
\* m_completed.fetch_add(1), still outside the lock.
WorkerRunTask(w) ==
    /\ wpc[w] = "run"
    /\ runs' = [runs EXCEPT ![cur[w]] = @ + 1]
    /\ IF Throws(cur[w])
       THEN /\ m_completed' = m_completed + 1
            /\ wpc' = [wpc EXCEPT ![w] = "ran"]
       ELSE /\ m_completed' = m_completed + 1
            /\ wpc' = [wpc EXCEPT ![w] = "ran"]
    /\ UNCHANGED <<m_cfg, m_workers, m_queue, m_accepting, m_inFlight,
                   m_submitted, m_mtx, m_cvWork, m_cvIdle, stopReq, cur, cpc,
                   stopLocals, discarded, accepted, lateCalls>>


\* Mutant of WorkerComplete: the fetch_sub on m_inFlight is left out.
WorkerComplete_NoDecrement(w) ==
    /\ wpc[w] = "ran"
    /\ m_mtx = NoThread
    /\ m_cvIdle' = {}
    /\ cpc' = WokenIdle(m_cvIdle)
    /\ cur' = [cur EXCEPT ![w] = 0]
    /\ wpc' = [wpc EXCEPT ![w] = "start"]
    /\ UNCHANGED <<m_cfg, m_workers, shared, m_mtx, m_cvWork, stopReq,
                   stopLocals, history>>

\* Under the lock: m_inFlight.fetch_sub(1) and m_cvIdle.notify_all() (both
\* branches of the if notify).
WorkerComplete(w) ==
    /\ wpc[w] = "ran"
    /\ m_mtx = NoThread
    /\ m_inFlight' = m_inFlight - 1
    /\ m_cvIdle' = {}
    /\ cpc' = WokenIdle(m_cvIdle)
    /\ cur' = [cur EXCEPT ![w] = 0]
    /\ wpc' = [wpc EXCEPT ![w] = "start"]
    /\ UNCHANGED <<m_cfg, m_workers, m_queue, m_accepting, m_submitted,
                   m_completed, m_mtx, m_cvWork, stopReq, stopLocals,
                   history>>

\* After the loop: lock, m_cvIdle.notify_all(), and the thread ends.
WorkerExit(w) ==
    /\ wpc[w] = "exit"
    /\ m_mtx = NoThread
    /\ m_cvIdle' = {}
    /\ cpc' = WokenIdle(m_cvIdle)
    /\ wpc' = [wpc EXCEPT ![w] = "done"]
    /\ UNCHANGED <<m_cfg, m_workers, shared, m_mtx, m_cvWork, stopReq, cur,
                   stopLocals, history>>

WorkerLoop(w) ==
    \/ WorkerWaitPred(w)
    \/ WorkerWaitBlock(w)
    \/ WorkerDequeue(w)
    \/ WorkerRunTask(w)
    \/ WorkerComplete(w)
    \/ WorkerExit(w)

----------------------------------------------------------------------------
\* Submit / SubmitLabeled

\* Submit calls, from client threads and from running tasks, not yet past
\* their critical section (they may still append).
PendingSubmits ==
    Cardinality({c \in Clients : cpc[c] = "s_lock"})
        + Cardinality({w \in Workers : wpc[w] = "n_lock"})

\* Entry of SubmitLabeled: the empty-callable test and the lock-free load of
\* m_accepting.  hasFn is `(bool)task`.
SubmitLabeled(c, hasFn) ==
    /\ cpc[c] = "idle"
    /\ IF ~hasFn \/ ~m_accepting
       THEN UNCHANGED cpc
       ELSE /\ m_submitted + PendingSubmits < MaxTasks
            /\ cpc' = [cpc EXCEPT ![c] = "s_lock"]
    /\ lateCalls' = IF m_workers = {} THEN lateCalls \cup {"Submit"} ELSE lateCalls
    /\ UNCHANGED <<m_cfg, m_workers, shared, m_mtx, m_cvWork, m_cvIdle,
                   stopReq, wpc, cur, stopLocals, runs, discarded, accepted>>


\* Mutant of SubmitEnqueue: no re-check of m_accepting under the lock.
SubmitEnqueue_NoRecheck(c) ==
    /\ cpc[c] = "s_lock"
    /\ m_mtx = NoThread
    /\ m_queue' = Append(m_queue, m_submitted + 1)
    /\ m_submitted' = m_submitted + 1
    /\ cpc' = [cpc EXCEPT ![c] = "s_notify"]
    /\ UNCHANGED <<m_cfg, m_workers, m_accepting, m_inFlight, m_completed,
                   m_mtx, m_cvWork, m_cvIdle, stopReq, wpc, cur, stopLocals,
                   history>>

\* Mutant of SubmitEnqueue: the re-check that fails falls through to the
\* notify and `return true` without appending.
SubmitEnqueue_TrueOnRefusal(c) ==
    /\ cpc[c] = "s_lock"
    /\ m_mtx = NoThread
    /\ IF ~m_accepting
       THEN UNCHANGED <<m_queue, m_submitted>>
       ELSE /\ m_queue' = Append(m_queue, m_submitted + 1)
            /\ m_submitted' = m_submitted + 1
    /\ cpc' = [cpc EXCEPT ![c] = "s_notify"]
    /\ UNCHANGED <<m_cfg, m_workers, m_accepting, m_inFlight, m_completed,
                   m_mtx, m_cvWork, m_cvIdle, stopReq, wpc, cur, stopLocals,
                   history>>

\* The critical section: re-check m_accepting, push_back, m_submitted++.
SubmitEnqueue(c) ==
    /\ cpc[c] = "s_lock"
    /\ m_mtx = NoThread
    /\ IF ~m_accepting
       THEN /\ cpc' = [cpc EXCEPT ![c] = "idle"]
            /\ UNCHANGED <<m_queue, m_submitted>>
       ELSE /\ m_queue' = Append(m_queue, m_submitted + 1)
            /\ m_submitted' = m_submitted + 1
            /\ cpc' = [cpc EXCEPT ![c] = "s_notify"]
    /\ UNCHANGED <<m_cfg, m_workers, m_accepting, m_inFlight, m_completed,
                   m_mtx, m_cvWork, m_cvIdle, stopReq, wpc, cur, stopLocals,
                   history>>

\* Mutant of SubmitNotify: Submit returns true without signalling m_cvWork.
SubmitNotify_NoSignal(c) ==
    /\ cpc[c] = "s_notify"
    /\ accepted' = accepted + 1
    /\ cpc' = [cpc EXCEPT ![c] = "idle"]
    /\ UNCHANGED <<m_cfg, m_workers, shared, m_mtx, m_cvWork, m_cvIdle,
                   stopReq, wpc, cur, stopLocals, runs, discarded, lateCalls>>

\* m_cvWork.notify_one() after the lock is released, then return true.
SubmitNotify(c) ==
    /\ cpc[c] = "s_notify"
    /\ IF m_cvWork = {}
       THEN UNCHANGED <<m_cvWork, wpc>>
       ELSE \E w \in m_cvWork :
                /\ m_cvWork' = m_cvWork \ {w}
                /\ wpc' = Woken({w})
    /\ accepted' = accepted + 1
    /\ cpc' = [cpc EXCEPT ![c] = "idle"]
    /\ UNCHANGED <<m_cfg, m_workers, shared, m_mtx, m_cvIdle, stopReq,
                   cur, stopLocals, runs, discarded, lateCalls>>

----------------------------------------------------------------------------
\* Submit / SubmitLabeled called by a task's callable, on the worker's thread

\* Entry of SubmitLabeled, called from inside task.fn().
TaskSubmitLabeled(w, hasFn) ==
    /\ wpc[w] = "run"
    /\ IF ~hasFn \/ ~m_accepting
       THEN UNCHANGED wpc
       ELSE /\ m_submitted + PendingSubmits < MaxTasks
            /\ wpc' = [wpc EXCEPT ![w] = "n_lock"]
    /\ UNCHANGED <<m_cfg, m_workers, shared, m_mtx, m_cvWork, m_cvIdle,
                   stopReq, cur, cpc, stopLocals, history>>

\* The critical section of that call: re-check, push_back, m_submitted++.
TaskSubmitEnqueue(w) ==
    /\ wpc[w] = "n_lock"
    /\ m_mtx = NoThread
    /\ IF ~m_accepting
       THEN /\ wpc' = [wpc EXCEPT ![w] = "run"]
            /\ UNCHANGED <<m_queue, m_submitted>>
       ELSE /\ m_queue' = Append(m_queue, m_submitted + 1)
            /\ m_submitted' = m_submitted + 1
            /\ wpc' = [wpc EXCEPT ![w] = "n_notify"]
    /\ UNCHANGED <<m_cfg, m_workers, m_accepting, m_inFlight, m_completed,
                   m_mtx, m_cvWork, m_cvIdle, stopReq, cur, cpc, stopLocals,
                   history>>

\* m_cvWork.notify_one(), return true; the callable goes on.
TaskSubmitNotify(w) ==
    /\ wpc[w] = "n_notify"
    /\ IF m_cvWork = {}
       THEN /\ UNCHANGED m_cvWork
            /\ wpc' = [wpc EXCEPT ![w] = "run"]
       ELSE \E v \in m_cvWork :
                /\ m_cvWork' = m_cvWork \ {v}
                /\ wpc' = [Woken({v}) EXCEPT ![w] = "run"]
    /\ accepted' = accepted + 1
    /\ UNCHANGED <<m_cfg, m_workers, shared, m_mtx, m_cvIdle, stopReq, cur,
                   cpc, stopLocals, runs, discarded, lateCalls>>

----------------------------------------------------------------------------
\* WaitIdle

\* The wait predicate of WaitIdle.
IdlePred == m_queue = <<>> /\ m_inFlight = 0

\* Lock and evaluate the predicate (on entry, or after a wake-up): return, or
\* release the mutex and block on m_cvIdle.  Every notify of m_cvIdle is done
\* under the mutex, so none can fall between the predicate and the wait.
WaitIdle(c) ==
    /\ \/ cpc[c] = "idle"
       \/ cpc[c] = "wi_blocked" /\ c \notin m_cvIdle
    /\ m_mtx = NoThread
    /\ IF IdlePred
       THEN /\ cpc' = [cpc EXCEPT ![c] = "idle"]
            /\ UNCHANGED m_cvIdle
       ELSE /\ cpc' = [cpc EXCEPT ![c] = "wi_blocked"]
            /\ m_cvIdle' = m_cvIdle \cup {c}
    /\ UNCHANGED <<m_cfg, m_workers, shared, m_mtx, m_cvWork, stopReq, wpc,
                   cur, stopLocals, history>>

----------------------------------------------------------------------------
\* Stop (the destructor is Stop with mode Drain)

StopModes == {"Drain", "CancelPending"}


\* Mutant of Stop: a plain store of false in place of the compare-exchange,
\* so every caller goes on to shut the pool down.
Stop_NoCompareExchange(c, mode) ==
    /\ cpc[c] = "idle"
    /\ m_accepting' = FALSE
    /\ stopMode' = mode
    /\ cpc' = [cpc EXCEPT ![c] = "st_clear"]
    /\ lateCalls' = IF m_workers = {} THEN lateCalls \cup {"Stop"} ELSE lateCalls
    /\ UNCHANGED <<m_cfg, m_workers, m_queue, m_inFlight, m_submitted,
                   m_completed, m_mtx, m_cvWork, m_cvIdle, stopReq, wpc, cur,
                   stopIt, runs, discarded, accepted>>

\* m_accepting.compare_exchange_strong(expected = true, false): the caller
\* that finds it already false returns at once.
Stop(c, mode) ==
    /\ cpc[c] = "idle"
    /\ IF m_accepting
       THEN /\ m_accepting' = FALSE
            /\ stopMode' = mode
            /\ cpc' = [cpc EXCEPT ![c] = "st_clear"]
       ELSE UNCHANGED <<m_accepting, stopMode, cpc>>
    /\ lateCalls' = IF m_workers = {} THEN lateCalls \cup {"Stop"} ELSE lateCalls
    /\ UNCHANGED <<m_cfg, m_workers, m_queue, m_inFlight, m_submitted,
                   m_completed, m_mtx, m_cvWork, m_cvIdle, stopReq, wpc, cur,
                   stopIt, runs, discarded, accepted>>


\* Mutant of StopClear: the queue is cleared whatever the mode.
StopClear_AnyMode(c) ==
    /\ cpc[c] = "st_clear"
    /\ m_mtx = NoThread
    /\ m_queue' = <<>>
    /\ discarded' = discarded \cup Range(m_queue)
    /\ stopIt' = 1
    /\ cpc' = [cpc EXCEPT ![c] = "st_request"]
    /\ UNCHANGED <<m_cfg, m_workers, m_accepting, m_inFlight, m_submitted,
                   m_completed, m_mtx, m_cvWork, m_cvIdle, stopReq, wpc, cur,
                   stopMode, runs, accepted, lateCalls>>

\* Mutant of StopClear: CancelPending erases all but the last queued task
\* (an off-by-one in the erased range); discarded still records the tasks
\* that were queued when Stop emptied the queue.
StopClear_KeepsLast(c) ==
    /\ cpc[c] = "st_clear"
    /\ m_mtx = NoThread
    /\ IF stopMode = "CancelPending"
       THEN /\ m_queue' = IF m_queue = <<>> THEN <<>> ELSE <<m_queue[Len(m_queue)]>>
            /\ discarded' = discarded \cup Range(m_queue)
       ELSE UNCHANGED <<m_queue, discarded>>
    /\ stopIt' = 1
    /\ cpc' = [cpc EXCEPT ![c] = "st_request"]
    /\ UNCHANGED <<m_cfg, m_workers, m_accepting, m_inFlight, m_submitted,
                   m_completed, m_mtx, m_cvWork, m_cvIdle, stopReq, wpc, cur,
                   stopMode, runs, accepted, lateCalls>>

\* Mutant of StopClear: the tasks erased by CancelPending are also taken
\* out of m_submitted.
StopClear_Uncounts(c) ==
    /\ cpc[c] = "st_clear"
    /\ m_mtx = NoThread
    /\ IF stopMode = "CancelPending"
       THEN /\ m_queue' = <<>>
            /\ m_submitted' = m_submitted - Len(m_queue)
            /\ discarded' = discarded \cup Range(m_queue)
       ELSE UNCHANGED <<m_queue, m_submitted, discarded>>
    /\ stopIt' = 1
    /\ cpc' = [cpc EXCEPT ![c] = "st_request"]
    /\ UNCHANGED <<m_cfg, m_workers, m_accepting, m_inFlight,
                   m_completed, m_mtx, m_cvWork, m_cvIdle, stopReq, wpc, cur,
                   stopMode, runs, accepted, lateCalls>>

\* Under the lock: m_queue.clear() when the mode is CancelPending.
StopClear(c) ==
    /\ cpc[c] = "st_clear"
    /\ m_mtx = NoThread
    /\ IF stopMode = "CancelPending"
       THEN /\ m_queue' = <<>>
            /\ discarded' = discarded \cup Range(m_queue)
       ELSE UNCHANGED <<m_queue, discarded>>
    /\ stopIt' = 1
    /\ cpc' = [cpc EXCEPT ![c] = "st_request"]
    /\ UNCHANGED <<m_cfg, m_workers, m_accepting, m_inFlight, m_submitted,
                   m_completed, m_mtx, m_cvWork, m_cvIdle, stopReq, wpc, cur,
                   stopMode, runs, accepted, lateCalls>>

\* One turn of `for (auto& t : m_workers) t.request_stop();`, no lock held.
StopRequest(c) ==
    /\ cpc[c] = "st_request"
    /\ stopReq' = [stopReq EXCEPT ![stopIt] = TRUE]
    /\ IF stopIt = Cardinality(m_workers)
       THEN /\ cpc' = [cpc EXCEPT ![c] = "st_notify"]
            /\ UNCHANGED stopIt
       ELSE /\ stopIt' = stopIt + 1
            /\ UNCHANGED cpc
    /\ UNCHANGED <<m_cfg, m_workers, shared, m_mtx, m_cvWork, m_cvIdle, wpc,
                   cur, stopMode, history>>

\* m_cvWork.notify_all(), no lock held: wakes the workers blocked right now.
StopNotify(c) ==
    /\ cpc[c] = "st_notify"
    /\ m_cvWork' = {}
    /\ wpc' = Woken(m_cvWork)
    /\ cpc' = [cpc EXCEPT ![c] = "st_wait"]
    /\ UNCHANGED <<m_cfg, m_workers, shared, m_mtx, m_cvIdle, stopReq,
                   cur, stopLocals, history>>


\* Mutant of StopPred: CancelPending does not wait for the tasks in flight.
StopPred_NoWaitOnCancel == IF stopMode = "Drain" THEN IdlePred ELSE TRUE

\* The predicate Stop waits for on m_cvIdle: WaitIdle's when draining, only
\* m_inFlight == 0 when cancelling.
StopPred == IF stopMode = "Drain" THEN IdlePred ELSE m_inFlight = 0

\* Lock and evaluate the predicate (on entry, or after a wake-up, which puts
\* the caller back at "st_wait"): go on to the join, or release the mutex
\* and block on m_cvIdle.
StopWait(c) ==
    /\ cpc[c] = "st_wait"
    /\ m_mtx = NoThread
    /\ IF StopPred
       THEN /\ cpc' = [cpc EXCEPT ![c] = "st_join"]
            /\ UNCHANGED m_cvIdle
       ELSE /\ cpc' = [cpc EXCEPT ![c] = "st_blocked"]
            /\ m_cvIdle' = m_cvIdle \cup {c}
    /\ UNCHANGED <<m_cfg, m_workers, shared, m_mtx, m_cvWork, stopReq, wpc,
                   cur, stopLocals, history>>


\* Mutant of StopJoin: the threads are detached, not joined; the vector is
\* cleared and Stop returns whether or not the workers have ended.
StopJoin_Detach(c) ==
    /\ cpc[c] = "st_join"
    /\ m_workers' = {}
    /\ cpc' = [cpc EXCEPT ![c] = "idle"]
    /\ UNCHANGED <<m_cfg, shared, m_mtx, m_cvWork, m_cvIdle, stopReq, wpc, cur,
                   stopLocals, runs, discarded, accepted, lateCalls>>

\* m_workers.clear(): each jthread's destructor requests stop (already
\* requested) and joins, so the call goes on once every worker thread has
\* ended; Stop then returns.
StopJoin(c) ==
    /\ cpc[c] = "st_join"
    /\ \A w \in m_workers : wpc[w] = "done"
    /\ m_workers' = {}
    /\ cpc' = [cpc EXCEPT ![c] = "idle"]
    /\ UNCHANGED <<m_cfg, shared, m_mtx, m_cvWork, m_cvIdle, stopReq, wpc, cur,
                   stopLocals, runs, discarded, accepted, lateCalls>>

----------------------------------------------------------------------------
\* GetStats

\* What `m_workers.size()` can yield in this state.  The read takes no lock:
\* while Stop is inside m_workers.clear() it races with the write of the
\* vector's size, and can yield the old size, 0, or anything between.
WorkerCountRead ==
    IF \E c \in Clients : cpc[c] = "st_join"
    THEN 0..Cardinality(m_workers)
    ELSE {Cardinality(m_workers)}

\* GetStats: workerCount from m_workers.size(), the three counters from
\* their atomics, then queued from m_queue.size() under the lock.  It writes
\* nothing; n is the workerCount it reports.
GetStats(c, n) ==
    /\ cpc[c] = "idle"
    /\ n \in WorkerCountRead
    /\ m_mtx = NoThread
    /\ UNCHANGED vars

----------------------------------------------------------------------------
\* std::condition_variable::wait may return without a notify.
SpuriousWakeup ==
    /\ \/ \E w \in m_cvWork :
            /\ m_cvWork' = m_cvWork \ {w}
            /\ wpc' = Woken({w})
            /\ UNCHANGED <<m_cvIdle, cpc>>
       \/ \E c \in m_cvIdle :
            /\ m_cvIdle' = m_cvIdle \ {c}
            /\ cpc' = WokenIdle({c})
            /\ UNCHANGED <<m_cvWork, wpc>>
    /\ UNCHANGED <<m_cfg, m_workers, shared, m_mtx, stopReq, cur,
                   stopLocals, history>>

Next ==
    \/ \E w \in Workers : WorkerLoop(w)
    \/ \E c \in Clients, hasFn \in BOOLEAN : SubmitLabeled(c, hasFn)
    \/ \E c \in Clients : SubmitEnqueue(c)
    \/ \E c \in Clients : SubmitNotify(c)
    \/ \E w \in Workers, hasFn \in BOOLEAN : TaskSubmitLabeled(w, hasFn)
    \/ \E w \in Workers : TaskSubmitEnqueue(w)
    \/ \E w \in Workers : TaskSubmitNotify(w)
    \/ \E c \in Clients : WaitIdle(c)
    \/ \E c \in Clients, mode \in StopModes : Stop(c, mode)
    \/ \E c \in Clients : StopClear(c)
    \/ \E c \in Clients : StopRequest(c)
    \/ \E c \in Clients : StopNotify(c)
    \/ \E c \in Clients : StopWait(c)
    \/ \E c \in Clients : StopJoin(c)
    \/ \E c \in Clients : \E n \in WorkerCountRead : GetStats(c, n)
    \/ SpuriousWakeup

Spec == Init /\ [][Next]_vars

----------------------------------------------------------------------------
\* Scheduling.  Every step a worker thread can take, its calls to Submit from
\* a callable included; whether a callable calls Submit at all is its choice.
WorkerThread(w) ==
    \/ WorkerLoop(w)
    \/ TaskSubmitEnqueue(w)
    \/ TaskSubmitNotify(w)

\* The steps of a client thread inside a call it has begun; whether and when
\* it begins a call is its choice.
ClientInCall(c) ==
    \/ SubmitEnqueue(c)
    \/ SubmitNotify(c)
    \/ cpc[c] = "wi_blocked" /\ WaitIdle(c)
    \/ StopClear(c)
    \/ StopRequest(c)
    \/ StopNotify(c)
    \/ StopWait(c)
    \/ StopJoin(c)

\* A thread that can run does run, and one that keeps asking for the mutex
\* gets it in the end (strong fairness: the mutex is free again and again,
\* not continuously); a blocked thread runs again only when notified: no
\* wake-up without a notify is ever promised.
Fairness ==
    /\ \A w \in Workers : SF_vars(WorkerThread(w))
    /\ \A c \in Clients : SF_vars(ClientInCall(c))

FairSpec == Spec /\ Fairness

----------------------------------------------------------------------------
\* Vocabulary of the properties.

\* The Stop call that won the compare-exchange has returned: StopJoin is the
\* only step that empties m_workers, and it is that call's last step.
ShutdownReturned == m_workers = {}

\* A Stop call that thread c makes now returns in its first step (the
\* compare-exchange fails).  Such a call changes nothing, so the state it
\* returns in is this state.
StopReturnsAtOnce(c) ==
    ENABLED (\E mode \in StopModes : Stop(c, mode) /\ cpc'[c] = "idle")

\* The states in which a Stop call returns: the call that performed the
\* shutdown has returned, or a call finds the flag cleared and returns at once.
AnyStopReturns == ShutdownReturned \/ \E c \in Clients : StopReturnsAtOnce(c)

\* Some Stop call is past the compare-exchange and has not returned.
StoppingClients == {c \in Clients : cpc[c] \in
    {"st_clear", "st_request", "st_notify", "st_wait", "st_blocked", "st_join"}}

\* The tasks appended so far.
Appended == 1..m_submitted

\* The workers that are executing a callable.
InCallable == {w \in Workers : wpc[w] \in {"run", "n_lock", "n_notify"}}

\* The workers that have counted their task in m_completed and have not yet
\* taken it out of m_inFlight.
MidCompletion == {w \in Workers : wpc[w] = "ran"}

----------------------------------------------------------------------------
\* C1: every Stop call returns (tasks end: WorkerRunTask is always enabled in
\* "run").  Stated on finite runs: no Stop call is ever left at the join with
\* a worker blocked on the work condition after the broadcast, when no Submit
\* call is left to notify it; from such a state only a spurious wake-up lets
\* the join, and so Stop, end.
C1_StopReturns ==
    \A c \in Clients :
        (cpc[c] = "st_join" /\ \A d \in Clients : cpc[d] # "s_notify")
            => \A w \in m_workers : ~(wpc[w] = "blocked" /\ w \in m_cvWork)

\* C2: when the Stop(Drain) call that shut the pool down has returned, every
\* task ever appended has run to its end: the queue is empty, nothing is in
\* flight, completed == submitted and each appended task ran once.
C2_DrainRunsEverything ==
    (ShutdownReturned /\ stopMode = "Drain") =>
        /\ m_queue = <<>>
        /\ m_inFlight = 0
        /\ m_completed = m_submitted
        /\ \A t \in Appended : runs[t] = 1

\* C2 witness: Stop(Drain) has returned, tasks were run, and a Submit call that
\* raced with it (its task appended and run) has still to return true.
C2_Witness ==
    /\ ShutdownReturned
    /\ stopMode = "Drain"
    /\ m_completed = MaxTasks
    /\ \E c \in Clients : cpc[c] = "s_notify"

\* C3: in every state in which a Stop call returns the accepting flag is
\* false; and once it is false it stays false, no Submit call gets past a
\* check of the flag (each returns false), and nothing is appended any more.
C3_StoppedRejectsForever ==
    /\ [](AnyStopReturns => ~m_accepting)
    /\ [][~m_accepting =>
            /\ ~m_accepting'
            /\ m_submitted' = m_submitted
            /\ Len(m_queue') <= Len(m_queue)
            /\ \A c \in Clients :
                  /\ cpc[c] = "idle" => cpc'[c] # "s_lock"
                  /\ cpc[c] = "s_lock" => cpc'[c] # "s_notify"]_vars

\* C3 witness: Submit was called after the shutdown had returned, on a pool
\* that had accepted a task before, and nothing was appended.
C3_Witness ==
    /\ ShutdownReturned
    /\ "Submit" \in lateCalls
    /\ accepted >= 1
    /\ m_submitted = accepted
    /\ \A c \in Clients : cpc[c] = "idle"

\* C4: a task that Stop(CancelPending) removed from the queue is never run and
\* never held by a worker; once that Stop has returned, the tasks that ran are
\* exactly the appended ones it did not remove, each once.
C4_DiscardedNeverRun ==
    /\ \A t \in discarded : runs[t] = 0 /\ \A w \in Workers : cur[w] # t
    /\ (ShutdownReturned /\ stopMode = "CancelPending") =>
            \A t \in Appended : runs[t] = (IF t \in discarded THEN 0 ELSE 1)

\* C4 witness: one worker, held in the first task while every other task was
\* queued behind it; Stop(CancelPending) has returned and exactly one task ran.
C4_Witness ==
    /\ ShutdownReturned
    /\ stopMode = "CancelPending"
    /\ wpc = [w \in Workers |-> IF w = 1 THEN "done" ELSE "none"]
    /\ m_submitted = MaxTasks
    /\ discarded = 2..MaxTasks
    /\ runs = [t \in Tasks |-> IF t = 1 THEN 1 ELSE 0]

\* C5: from the end of its wait for m_inFlight == 0 to its return and after,
\* the Stop(CancelPending) call that shuts the pool down sees nothing in
\* flight: m_inFlight == 0 and no worker is inside a callable.
C5_CancelWaitsForInFlight ==
    (stopMode = "CancelPending"
        /\ (ShutdownReturned \/ \E c \in Clients : cpc[c] = "st_join")) =>
        /\ m_inFlight = 0
        /\ InCallable = {}
        /\ \A w \in Workers : cur[w] = 0

\* C5 witness: Stop(CancelPending) has returned after it had to wait on the
\* idle condition for a task in flight, with queued tasks discarded.
C5_Witness ==
    /\ ShutdownReturned
    /\ stopMode = "CancelPending"
    /\ m_completed >= 1
    /\ discarded # {}
    /\ m_inFlight = 0

\* No worker thread is left and no work is left: every spawned worker has
\* ended and been joined, the queue is empty and nothing is in flight.
Inert ==
    /\ m_workers = {}
    /\ \A w \in Workers : wpc[w] \in {"done", "none"}
    /\ m_queue = <<>>
    /\ m_inFlight = 0

\* C6 as claimed: in every state in which a Stop call returns, also a call
\* that found the flag already cleared, the instance is inert.
C6_AnyStopReturnInert == AnyStopReturns => Inert

\* C6 amended: after the Stop call that performed the shutdown has returned
\* the instance is inert; a Stop call that finds the flag already cleared
\* returns with the flag false and nothing more (the shutdown may still be
\* under way in the other call).
C6_ShutdownReturnInert ==
    /\ ShutdownReturned => Inert
    /\ AnyStopReturns => ~m_accepting

\* C6 witness: the shutdown has returned after the pool ran a task, with two
\* worker threads joined, and a later Stop call returns at once.
C6_Witness ==
    /\ ShutdownReturned
    /\ m_completed >= 1
    /\ \A w \in Workers : wpc[w] = "done"
    /\ \E c \in Clients : StopReturnsAtOnce(c)

\* WaitIdle's predicate holds and the mutex is free: the states in which a
\* WaitIdle call returns.
WaitIdleReturns == m_mtx = NoThread /\ IdlePred

\* C7: with no Stop call made (the flag is still true), in every state in
\* which WaitIdle returns, completed == submitted, nothing is queued or in
\* flight, and every appended task has run exactly once.
C7_WaitIdleSeesAllDone ==
    (m_accepting /\ WaitIdleReturns) =>
        /\ m_completed = m_submitted
        /\ m_queue = <<>>
        /\ m_inFlight = 0
        /\ \A t \in Appended : runs[t] = 1

\* C7 witness: a WaitIdle caller that blocked has been woken and returns now,
\* every task of the bound submitted and run, the Submit calls returned.
C7_Witness ==
    /\ m_accepting
    /\ WaitIdleReturns
    /\ m_submitted = MaxTasks
    /\ accepted = MaxTasks
    /\ \E c \in Clients : cpc[c] = "wi_blocked" /\ c \notin m_cvIdle

\* What the counters account for: completed, in flight, queued and discarded.
Accounted == m_completed + m_inFlight + Len(m_queue) + Cardinality(discarded)

\* C8 as claimed: whenever a thread holds the mutex,
\* submitted == completed + inFlight + queued + discarded.
C8_BalancedUnderLock == m_mtx # NoThread => m_submitted = Accounted

\* C8 amended: at every boundary of a critical section (every state of this
\* model, with the mutex held or free), completed + inFlight + queued +
\* discarded exceeds submitted by the number of workers that have already
\* counted their task as completed (outside the lock) and not yet taken it
\* out of inFlight (under the lock); it is never below submitted.
C8_BalancedUpToMidCompletion ==
    Accounted = m_submitted + Cardinality(MidCompletion)

\* C8 witness: a worker holds the mutex while another has counted its task as
\* completed and not yet decremented inFlight.
C8_Witness ==
    /\ m_mtx # NoThread
    /\ MidCompletion # {}
    /\ Accounted = m_submitted + 1

\* A Submit call passes its critical section with the task appended.
SubmitAppends(c) == cpc[c] = "s_lock" /\ cpc'[c] = "s_notify"

\* A Submit call returns false from its critical section.
SubmitRefused(c) == cpc[c] = "s_lock" /\ cpc'[c] = "idle"

\* A Submit call returns true.
SubmitReturnsTrue(c) == cpc[c] = "s_notify" /\ cpc'[c] = "idle"

\* C9: the Submit calls that return true are the ones that appended a task
\* (submitted counts the true returns and the calls about to return true);
\* a call appends only with the flag true, at the tail, adding exactly 1 to
\* submitted; a call that gets past the entry checks found the flag true; a
\* false return found the flag false and leaves the queue and the counters
\* as they were, and so does the return of true after the append.
C9_SubmitResult ==
    /\ [](m_submitted = accepted + Cardinality({c \in Clients : cpc[c] = "s_notify"})
                                   + Cardinality({w \in Workers : wpc[w] = "n_notify"}))
    /\ [][\A c \in Clients :
            /\ (cpc[c] = "idle" /\ cpc'[c] = "s_lock") => m_accepting /\ UNCHANGED shared
            /\ SubmitAppends(c) =>
                  /\ m_accepting
                  /\ m_queue' = Append(m_queue, m_submitted + 1)
                  /\ m_submitted' = m_submitted + 1
                  /\ UNCHANGED <<m_completed, m_inFlight, accepted>>
            /\ SubmitRefused(c) => ~m_accepting /\ UNCHANGED <<shared, accepted>>
            /\ SubmitReturnsTrue(c) => accepted' = accepted + 1 /\ UNCHANGED shared]_vars

\* C9 witness: a Submit call has returned true, and another, which passed the
\* entry check before a Stop call cleared the flag, is about to be refused in
\* its critical section.
C9_Witness ==
    /\ accepted >= 1
    /\ ~m_accepting
    /\ m_mtx = NoThread
    /\ \E c \in Clients : cpc[c] = "s_lock"

\* C10: in every state in which a Stop call has returned the flag is false,
\* and a Stop call made with the flag false, whatever its mode and the mode
\* of the shutdown, returns in its first step and leaves the queue, the flag,
\* the worker set, the counters, the stop tokens and the waiters as they were.
C10_StopIdempotent ==
    /\ [](AnyStopReturns => ~m_accepting)
    /\ [][~m_accepting =>
            \A c \in Clients, mode \in StopModes :
                Stop(c, mode) =>
                    /\ cpc'[c] = "idle"
                    /\ UNCHANGED <<shared, m_workers, stopReq, stopMode,
                                   m_cvWork, m_cvIdle, m_mtx>>]_vars

\* C10 witness: Stop was called again after the shutdown had returned, on a
\* pool whose shutdown discarded a task and completed another.
C10_Witness ==
    /\ ShutdownReturned
    /\ "Stop" \in lateCalls
    /\ m_completed >= 1
    /\ discarded # {}

----------------------------------------------------------------------------
\* The worker threads the constructor spawned.
Spawned == {w \in Workers : wpc[w] # "none"}

\* The tasks taken out of the queue by a worker so far.
Dequeued == (Appended \ Range(m_queue)) \ discarded

\* Worker w removes a task from the queue in this step.
Dequeues(w) == cur[w] = 0 /\ cur'[w] # 0

\* C11: the queue holds the tasks in the order of their appends (the task
\* numbers are the append order); a worker that removes a task removes the
\* head, which was appended before every task left behind; so of two tasks
\* never discarded the later one is dequeued only after the earlier one; and
\* with one worker a task's callable starts only after every task appended
\* before it has run.
C11_FifoDequeue ==
    /\ [](\A i \in 1..Len(m_queue), j \in 1..Len(m_queue) :
              i < j => m_queue[i] < m_queue[j])
    /\ [](\A a \in Appended, b \in Appended :
              (a < b /\ b \in Dequeued /\ a \notin discarded) => a \in Dequeued)
    /\ [][\A w \in Workers :
            Dequeues(w) =>
                /\ m_queue # <<>>
                /\ cur'[w] = Head(m_queue)
                /\ m_queue' = Tail(m_queue)
                /\ \A t \in Range(m_queue') : cur'[w] < t
                /\ Cardinality(Spawned) = 1 =>
                      \A a \in Appended : a < cur'[w] => runs[a] = 1]_vars

\* C11 witness: a worker holds the first task, dequeued while a later task
\* was queued behind it, and the later task is still in the queue.
C11_Witness ==
    \E w \in Workers :
        /\ cur[w] = 1
        /\ wpc[w] = "run"
        /\ Len(m_queue) = MaxTasks - 1
        /\ MaxTasks \in Range(m_queue)

\* The callable that worker w runs ends in this step.
CallableEnds(w) ==
    wpc[w] = "run" /\ wpc'[w] \notin {"run", "n_lock", "n_notify"}

\* Worker w finishes its locked completion step.
CompletionEnds(w) == wpc[w] = "ran" /\ wpc'[w] # "ran"

\* C12: a callable that throws ends like one that returns: completed goes up
\* by 1 and the worker goes on to its completion step, where inFlight goes
\* down by 1, every idle waiter is notified and the worker is back at the
\* top of its loop; a worker thread ends only after its stop was requested.
C12_ThrowLikeReturn ==
    /\ [](\A w \in Workers : wpc[w] \in {"exit", "done"} => stopReq[w])
    /\ [][\A w \in Workers :
            /\ CallableEnds(w) =>
                  /\ m_completed' = m_completed + 1
                  /\ wpc'[w] = "ran"
                  /\ UNCHANGED <<m_queue, m_inFlight, m_accepting, m_submitted>>
            /\ CompletionEnds(w) =>
                  /\ m_inFlight' = m_inFlight - 1
                  /\ m_cvIdle' = {}
                  /\ wpc'[w] = "start"
                  /\ UNCHANGED <<m_queue, m_completed, m_accepting, m_submitted>>]_vars

\* C12 witness: the only worker ran the first task, which threw, then the
\* tasks behind it, all counted as completed; the pool still accepts.
C12_Witness ==
    /\ Cardinality(Spawned) = 1
    /\ Throws(1)
    /\ m_completed = MaxTasks
    /\ \A t \in Tasks : runs[t] = 1
    /\ m_inFlight = 0
    /\ m_accepting

\* C13 as claimed, for the reads that do not race with m_workers.clear():
\* in every state the worker count GetStats reports is config.workerThreads
\* when that is non-zero and at least 1 when it is zero.
C13_WorkerCountIsConfigured ==
    (\A c \in Clients : cpc[c] # "st_join") =>
        \A n \in WorkerCountRead :
            IF m_cfg # 0 THEN n = m_cfg ELSE n >= 1

\* C14: a worker owns the mutex only between the evaluation of its wait
\* predicate and its dequeue, never while it is inside a callable; a Submit
\* made by a callable has its critical section enabled whenever the mutex is
\* free; it appends at the tail of the queue, behind what is queued, adding 1
\* to submitted, when the flag is true, and returns false leaving everything
\* as it was when the flag is false.
C14_NoLockAcrossCallable ==
    /\ [](\A w \in Workers :
            /\ w \in InCallable => m_mtx # w
            /\ m_mtx = w => wpc[w] \in {"prewait", "locked"}
            /\ (wpc[w] = "n_lock" /\ m_mtx = NoThread) => ENABLED TaskSubmitEnqueue(w))
    /\ [][\A w \in Workers :
            /\ (wpc[w] = "run" /\ wpc'[w] = "n_lock") => m_accepting /\ UNCHANGED shared
            /\ (wpc[w] = "n_lock" /\ wpc'[w] = "n_notify") =>
                  /\ m_accepting
                  /\ m_queue' = Append(m_queue, m_submitted + 1)
                  /\ m_submitted' = m_submitted + 1
                  /\ UNCHANGED <<m_completed, m_inFlight, accepted>>
            /\ (wpc[w] = "n_lock" /\ wpc'[w] = "run") =>
                  ~m_accepting /\ UNCHANGED <<shared, accepted>>
            /\ (wpc[w] = "n_notify" /\ wpc'[w] = "run") =>
                  accepted' = accepted + 1 /\ UNCHANGED shared]_vars

\* C14 witness: the callable of the first task has appended a task from
\* inside the worker and is about to return true from Submit, while another
\* thread evaluates its wait predicate under the mutex.
C14_Witness ==
    \E w \in Workers :
        /\ wpc[w] = "n_notify"
        /\ cur[w] = 1
        /\ m_queue # <<>>
        /\ m_mtx \in Workers \ {w}

\* Stop(CancelPending) is past its m_queue.clear(): still shutting the pool
\* down, or returned.
AfterDiscard ==
    /\ stopMode = "CancelPending"
    /\ \/ ShutdownReturned
       \/ \E c \in Clients :
            cpc[c] \in {"st_request", "st_notify", "st_wait", "st_blocked", "st_join"}

\* C15 as claimed, read at the moments when no worker is between its two
\* completion updates: after the discard no discarded task has run and
\* submitted == completed + inFlight, and submitted == completed once
\* Stop(CancelPending) has returned.
C15_SubmittedIsCompletedPlusInFlight ==
    (AfterDiscard /\ MidCompletion = {}) =>
        /\ \A t \in discarded : runs[t] = 0
        /\ m_submitted = m_completed + m_inFlight
        /\ ShutdownReturned => m_submitted = m_completed

\* C15 amended: after the discard no discarded task has run or is counted as
\* completed (completed counts the callables that have ended), and submitted
\* still counts the discarded tasks: submitted == completed + inFlight +
\* discarded, less the workers between their two completion updates; once
\* Stop(CancelPending) has returned, submitted == completed + discarded.
C15_SubmittedCountsDiscarded ==
    AfterDiscard =>
        /\ \A t \in discarded : runs[t] = 0
        /\ m_completed = Cardinality({t \in Tasks : runs[t] >= 1})
        /\ m_submitted + Cardinality(MidCompletion)
              = m_completed + m_inFlight + Cardinality(discarded)
        /\ ShutdownReturned => m_submitted = m_completed + Cardinality(discarded)

\* C15 witness: Stop(CancelPending) has discarded queued tasks and has not
\* returned, while a task dequeued before the discard is still in flight.
C15_Witness ==
    /\ AfterDiscard
    /\ ~ShutdownReturned
    /\ discarded # {}
    /\ m_inFlight = 1
    /\ InCallable # {}

\* C16: once Stop(CancelPending) has emptied the queue it is empty in every
\* later state, the state Stop returns in and after included; a Submit call
\* that passed the entry check before the flag was cleared, from a client
\* thread or from a running task, leaves its critical section after the
\* discard by returning false, with the queue and the counters as they were.
C16_NoAppendAfterDiscard ==
    /\ [](AfterDiscard => m_queue = <<>>)
    /\ [][AfterDiscard =>
            /\ m_queue' = <<>>
            /\ \A c \in Clients :
                  (cpc[c] = "s_lock" /\ cpc'[c] # "s_lock") =>
                      cpc'[c] = "idle" /\ UNCHANGED <<shared, accepted>>
            /\ \A w \in Workers :
                  (wpc[w] = "n_lock" /\ wpc'[w] # "n_lock") =>
                      wpc'[w] = "run" /\ UNCHANGED <<shared, accepted>>]_vars

\* C16 witness: Stop(CancelPending) has discarded a queued task while a
\* Submit call that passed the entry check is about to enter its critical
\* section.
C16_Witness ==
    /\ AfterDiscard
    /\ discarded # {}
    /\ m_mtx = NoThread
    /\ \E c \in Clients : cpc[c] = "s_lock"

\* Worker w breaks out of its loop in this step.
LeavesLoop(w) == wpc[w] # "exit" /\ wpc'[w] = "exit"

\* Worker w, past its wait and holding the mutex, decides in this step.
Decides(w) == wpc[w] = "locked" /\ wpc'[w] # "locked"

\* C17: a worker breaks out of its loop only in a step taken under the mutex
\* with its stop requested and the queue empty; a stop-requested worker that
\* finds the queue non-empty takes the head task and goes on to run it; a
\* worker whose stop has not been requested does not leave; so a worker that
\* has left, or ended, had its stop requested.
C17_ExitOnlyStoppedAndEmpty ==
    /\ [](\A w \in Workers : wpc[w] \in {"exit", "done"} => stopReq[w])
    /\ [][\A w \in Workers :
            /\ LeavesLoop(w) =>
                  /\ m_mtx = w
                  /\ stopReq[w]
                  /\ m_queue = <<>>
                  /\ UNCHANGED shared
            /\ (Decides(w) /\ stopReq[w] /\ m_queue # <<>>) =>
                  /\ wpc'[w] = "run"
                  /\ cur'[w] = Head(m_queue)
                  /\ m_queue' = Tail(m_queue)
                  /\ m_inFlight' = m_inFlight + 1
            /\ (Decides(w) /\ ~stopReq[w]) => wpc'[w] \in {"run", "start"}]_vars

\* C17 witness: a worker whose stop has been requested is past its wait,
\* under the mutex, with a task still queued.
C17_Witness ==
    \E w \in Workers :
        /\ wpc[w] = "locked"
        /\ stopReq[w]
        /\ m_queue # <<>>
        /\ stopMode = "Drain"

\* The workers between their dequeue and their m_inFlight decrement.
BetweenDequeueAndDecrement == InCallable \cup MidCompletion

\* C20: no callable runs twice and only appended tasks run; a task held by a
\* worker is out of the queue and held by no other worker; inFlight is the
\* number of workers between their dequeue and their decrement, so it is at
\* most the number of workers and its decrement never takes it below 0;
\* completed counts the callables that have ended and never exceeds submitted.
C20_AtMostOnce ==
    /\ \A t \in Tasks : runs[t] <= 1 /\ (runs[t] = 1 => t \in Appended)
    /\ \A w \in Workers :
          /\ cur[w] # 0 <=> w \in BetweenDequeueAndDecrement
          /\ cur[w] # 0 =>
                /\ cur[w] \in Appended \ Range(m_queue)
                /\ \A v \in Workers \ {w} : cur[v] # cur[w]
                /\ runs[cur[w]] = (IF w \in MidCompletion THEN 1 ELSE 0)
    /\ m_inFlight = Cardinality(BetweenDequeueAndDecrement)
    /\ m_inFlight <= Cardinality(Spawned)
    /\ \A w \in MidCompletion : m_inFlight >= 1
    /\ m_completed = Cardinality({t \in Tasks : runs[t] = 1})
    /\ m_completed <= m_submitted

\* C20 witness: two workers hold two different tasks at once, one inside its
\* callable, the other between its completed increment and its decrement.
C20_Witness ==
    /\ m_inFlight = 2
    /\ Cardinality(InCallable) = 1
    /\ Cardinality(MidCompletion) = 1
    /\ m_queue = <<>>

\* A thread is about to notify the work condition: a Submit past its append,
\* or the Stop call before its notify_all.
WorkNotifyPending ==
    \/ \E c \in Clients : cpc[c] \in {"s_notify", "st_clear", "st_request", "st_notify"}
    \/ \E w \in Workers : wpc[w] = "n_notify"

\* C18: every appended task (its Submit returns true) is eventually run or
\* Stop(CancelPending) is called; and no state has a task in the queue with
\* every worker blocked on the work condition and no notify still to come.
C18_AcceptedEventuallyRuns ==
    /\ []((m_queue # <<>> /\ \A w \in Spawned : w \in m_cvWork) => WorkNotifyPending)
    /\ \A t \in Tasks :
          (t \in Appended) ~> (runs[t] = 1 \/ stopMode = "CancelPending")

\* C18 witness: every task of the bound has run, the last of them appended
\* while every worker was blocked on the work condition and handed over by
\* the one notify of its Submit.
C18_Witness ==
    /\ \A t \in Tasks : runs[t] = 1
    /\ accepted = MaxTasks
    /\ stopMode = "none"
    /\ Cardinality(Spawned) = MaxWorkers
    /\ \A w \in Spawned : w \in m_cvWork

\* Worker w is blocked on the work condition with no notify left for it, or
\* has ended: it will not notify the idle condition again.
Silent(w) == (wpc[w] = "blocked" /\ w \in m_cvWork) \/ wpc[w] = "done"

\* C19, on finite runs: no thread is ever left blocked in WaitIdle with the
\* queue empty and nothing in flight when no notify of the idle condition
\* can come any more: the flag is false (nothing will be appended), no
\* notify of the work condition is still to come, and every worker is
\* blocked on the work condition or has ended.
C19_WaitIdleReleased ==
    \A c \in Clients :
        (cpc[c] = "wi_blocked" /\ c \in m_cvIdle /\ IdlePred)
            => ~(/\ ~m_accepting
                 /\ ~WorkNotifyPending
                 /\ \A w \in Spawned : Silent(w))

====
